---- MODULE Spec2Model ----
(***************************************************************************)
(* Model of src/db_operations.py: the dump transfer pipeline of the        *)
(* flight-reservation lab script.  Every public function of the script is  *)
(* a small sequential program running against the MariaDB engine, which is *)
(* modelled as an environment that can fail any call made to it.           *)
(*                                                                         *)
(* A process is one invocation of a public function (the main thread, or   *)
(* one worker thread of threaded_import).  Its local variables are the     *)
(* fields of loc[p]; an action is one step of the function between two     *)
(* calls to the engine or the file system.                                 *)
(***************************************************************************)
EXTENDS Integers, Sequences, FiniteSets, TLC

(***************************************************************************)
(* Program constants.                                                      *)
(***************************************************************************)
MAX_RETRIES == 3
RETRY_DELAY == 2

DefaultDb == <<"flight_reservation">>

(***************************************************************************)
(* Bounds of the model.                                                    *)
(***************************************************************************)
\* number of ';'-separated pieces of a dump file text
MaxPieces == 3
\* number of engine / file-system faults the environment injects in one run
MaxFaults == 4
\* threaded_import: the worker threads of a call, the pieces of its dump file
\* and the faults injected during it
MaxThreads == 2
MaxThreadPieces == 2
MaxThreadFaults == 3
\* benchmark_import_export: the iterations of a call and the faults injected
\* during it
MaxIterations == 2
MaxBenchmarkFaults == 3
\* number of tables of an exported database, and of rows of a table
MaxTables == 2
MaxRows == 2

(***************************************************************************)
(* Text.  A file text is a sequence of tokens; ";" is the separator        *)
(* character, " " stands for any whitespace, "A" and "B" for the text of   *)
(* well-formed statements and "X" for text the engine rejects.             *)
(***************************************************************************)
Semi == ";"
Blank == " "

\* the ';'-free texts the dump files of the model are built from
Pieces == { <<>>, <<Blank>>, <<"A">>, <<"B", Blank>>, <<"X">> }

RECURSIVE JoinWith(_, _)
\* sep.join(ps) for a sequence ps of texts
JoinWith(ps, sep) ==
    IF Len(ps) = 0 THEN <<>>
    ELSE IF Len(ps) = 1 THEN ps[1]
    ELSE ps[1] \o sep \o JoinWith(Tail(ps), sep)

\* the file text whose ';'-separated pieces are ps (ps is not empty)
Join(ps) == JoinWith(ps, <<Semi>>)

RECURSIVE SeqsUpTo(_, _)
\* the non-empty sequences over S of length at most n
SeqsUpTo(S, n) ==
    IF n = 0 THEN {}
    ELSE LET shorter == SeqsUpTo(S, n - 1)
         IN  { <<s>> : s \in S } \cup shorter
               \cup { Append(q, s) : q \in shorter, s \in S }

DumpTexts == { Join(ps) : ps \in SeqsUpTo(Pieces, MaxPieces) }

\* the positions 1..n in order
Positions(n) == [k \in 1..n |-> k]

\* the members of a set S of positions of 1..n, in increasing order
Ordered(S, n) == SelectSeq(Positions(n), LAMBDA k : k \in S)

\* the pieces of text between the positions of cuts
CutAt(text, cuts) ==
    LET at == Ordered(cuts, Len(text))
        first(j) == IF j = 1 THEN 1 ELSE at[j - 1] + 1
        last(j) == IF j > Len(at) THEN Len(text) ELSE at[j] - 1
    IN  [j \in 1..(Len(at) + 1) |-> SubSeq(text, first(j), last(j))]

\* f.read().split(';'): the pieces between the ';' of the text, one more than
\* there are ';'
Split(text) == CutAt(text, { k \in 1..Len(text) : text[k] = Semi })

\* bool(command.strip()): the command holds a non-whitespace character
NonBlank(command) == \E k \in 1..Len(command) : command[k] # Blank

Quote == "'"

Digits == <<"0", "1", "2", "3", "4", "5", "6", "7", "8", "9">>

\* row values as the connector returns them: None, a number, anything else
Null == [t |-> "null", v |-> <<>>]
Num(digits) == [t |-> "num", v |-> digits]
Str(chars) == [t |-> "str", v |-> chars]

(***************************************************************************)
(* The engine's reading of a statement.  In the texts below "~" stands for *)
(* the backquote character, which a string of this module cannot hold, and *)
(* "(...)" for the column definitions of a table.                          *)
(***************************************************************************)
\* the openings of the comment lines that export_dump writes (lines 105-106,
\* 111 and 118); a comment ends with its line
CommentOpeners ==
    { "-- Database dump generated on <now>", "-- Database: ",
      "-- Table structure for table ~", "-- Dumping data for table ~" }

\* what the engine parses of a command: the command without its whitespace
\* and its comments, a comment running from its opening to the next
\* whitespace (the end of its line)
Statement(command) ==
    LET openings == { j \in 1..Len(command) : command[j] \in CommentOpeners }
        inComment(k) ==
            \E j \in openings : /\ j <= k
                                /\ \A m \in j..k : command[m] # Blank
        kept == Ordered({ k \in 1..Len(command) :
                            command[k] # Blank /\ ~inComment(k) },
                        Len(command))
    IN  [i \in 1..Len(kept) |-> command[kept[i]]]

NoValue == [ok |-> FALSE, value |-> Null, next |-> 0]
NoRow == [ok |-> FALSE, row |-> <<>>, next |-> 0]
NoRows == [ok |-> FALSE, rows |-> <<>>]

RECURSIVE ParseString(_, _, _)
\* a string literal of s whose opening quote is before position k: it ends at
\* the first quote that is not doubled; a doubled quote is one quote character
ParseString(s, k, acc) ==
    IF k > Len(s) THEN NoValue
    ELSE IF s[k] # Quote THEN ParseString(s, k + 1, Append(acc, s[k]))
    ELSE IF k < Len(s) /\ s[k + 1] = Quote
         THEN ParseString(s, k + 2, Append(acc, Quote))
         ELSE [ok |-> TRUE, value |-> Str(acc), next |-> k + 1]

RECURSIVE ParseNumber(_, _, _)
\* the digits of s from position k on
ParseNumber(s, k, acc) ==
    IF k <= Len(s) /\ s[k] \in { Digits[d] : d \in 1..Len(Digits) }
    THEN ParseNumber(s, k + 1, Append(acc, s[k]))
    ELSE [ok |-> acc # <<>>, value |-> Num(acc), next |-> k]

\* the literal of s at position k: NULL, a string or a number
ParseValue(s, k) ==
    IF k > Len(s) THEN NoValue
    ELSE IF s[k] = "NULL" THEN [ok |-> TRUE, value |-> Null, next |-> k + 1]
    ELSE IF s[k] = Quote THEN ParseString(s, k + 1, <<>>)
    ELSE ParseNumber(s, k, <<>>)

RECURSIVE ParseValues(_, _, _)
\* the values of a row of s from position k on, up to its ")"
ParseValues(s, k, row) ==
    LET v == ParseValue(s, k) IN
    IF ~v.ok \/ v.next > Len(s) THEN NoRow
    ELSE IF s[v.next] = "," THEN ParseValues(s, v.next + 1, Append(row, v.value))
    ELSE IF s[v.next] = ")"
         THEN [ok |-> TRUE, row |-> Append(row, v.value), next |-> v.next + 1]
         ELSE NoRow

RECURSIVE ParseRows(_, _, _)
\* the rows "(...),(...)" of s from position k to its end
ParseRows(s, k, rows) ==
    IF k > Len(s) \/ s[k] # "(" THEN NoRows
    ELSE LET r == ParseValues(s, k + 1, <<>>) IN
         IF ~r.ok THEN NoRows
         ELSE IF r.next > Len(s) THEN [ok |-> TRUE, rows |-> Append(rows, r.row)]
         ELSE IF s[r.next] = "," THEN ParseRows(s, r.next + 1, Append(rows, r.row))
         ELSE NoRows

\* an opaque well-formed statement
IsOpaque(s) == s # <<>> /\ \A k \in 1..Len(s) : s[k] \in {"A", "B"}

IsDropTable(s) == Len(s) = 3 /\ s[1] = "DROP TABLE IF EXISTS ~" /\ s[3] = "~"

IsCreateTable(s) == Len(s) = 3 /\ s[1] = "CREATE TABLE ~" /\ s[3] = "~ (...)"

\* the position of the VALUES keyword of an INSERT statement (0: none)
ValuesAt(s) ==
    IF \E k \in 1..Len(s) : s[k] = "~) VALUES"
    THEN CHOOSE k \in 1..Len(s) :
            s[k] = "~) VALUES" /\ \A j \in 1..(k - 1) : s[j] # "~) VALUES"
    ELSE 0

\* the columns named by an INSERT statement
InsertColumns(s) ==
    LET n == (ValuesAt(s) - 3) \div 2 IN [c \in 1..n |-> s[2 + 2 * c]]

\* the rows of an INSERT statement
InsertRows(s) == ParseRows(s, ValuesAt(s) + 1, <<>>)

IsInsert(s) ==
    LET at == ValuesAt(s)
        parsed == InsertRows(s)
        columns == InsertColumns(s)
    IN
    /\ Len(s) >= 5
    /\ s[1] = "INSERT INTO ~"
    /\ s[3] = "~ (~"
    /\ at >= 5
    /\ (at - 3) % 2 = 0
    /\ \A k \in 4..(at - 1) : (k % 2 = 1) = (s[k] = "~,~")
    /\ parsed.ok
    /\ \A r \in 1..Len(parsed.rows) : Len(parsed.rows[r]) = Len(columns)

IsDdl(s) == IsDropTable(s) \/ IsCreateTable(s)

\* whether the engine can parse the command (a mariadb.Error is raised if
\* not): "X" is text it rejects, and so are a command that is only a comment
\* and a statement cut inside a string literal
EngineAccepts(command) ==
    LET s == Statement(command) IN
    /\ NonBlank(command)
    /\ IsOpaque(s) \/ IsDropTable(s) \/ IsCreateTable(s) \/ IsInsert(s)

\* the columns that "(...)" stands for
TableColumns == <<"c1", "c2">>

\* the tables named name among tables
Named(tables, name) == { k \in 1..Len(tables) : tables[k].name = name }

\* whether the engine performs the command on a database holding tables: it
\* parses it, a created table does not exist yet and the target of an INSERT
\* exists and has the columns named (a mariadb.Error is raised if not)
Executes(tables, command) ==
    LET s == Statement(command) IN
    /\ EngineAccepts(command)
    /\ IsCreateTable(s) => Named(tables, s[2]) = {}
    /\ IsInsert(s) =>
          \E k \in Named(tables, s[2]) : tables[k].columns = InsertColumns(s)

\* the tables of a database after statement s
Applied(tables, s) ==
    IF IsDropTable(s) THEN SelectSeq(tables, LAMBDA table : table.name # s[2])
    ELSE IF IsCreateTable(s)
    THEN Append(tables, [name |-> s[2], create |-> s,
                         columns |-> TableColumns, rows |-> <<>>])
    ELSE IF IsInsert(s)
    THEN [k \in 1..Len(tables) |->
            IF tables[k].name = s[2]
            THEN [tables[k] EXCEPT !.rows = @ \o InsertRows(s).rows]
            ELSE tables[k]]
    ELSE tables

RECURSIVE AppliedAll(_, _)
\* the tables of a database after the statements of pending, in order
AppliedAll(tables, pending) ==
    IF pending = <<>> THEN tables
    ELSE AppliedAll(Applied(tables, Statement(Head(pending).sql)), Tail(pending))

\* a database once the statements of pending are committed
Committed(db, pending) ==
    [log |-> db.log \o pending, tables |-> AppliedAll(db.tables, pending)]

(***************************************************************************)
(* State.                                                                  *)
(***************************************************************************)
VARIABLES
    loc,      \* loc[p]: the local variables and position of process p
    engine,   \* engine[db]: database db: the statements committed to it, in
              \* order (log), and the tables it holds (tables)
    fs,       \* fs[path]: the text of the file at path (absent: no such file)
    budget,   \* faults the environment may still inject
    co,       \* the locals and position of a threaded_import call
    results,  \* the list the worker threads of threaded_import append to
    bench     \* the locals and position of a benchmark_import_export call

vars == <<loc, engine, fs, budget, co, results, bench>>

DUMP_FILE == "flight_database_dump.sql"
COMPRESSED_DUMP == "flight_database_dump.zip"

\* the content of a file: a text, or a ZIP archive of named entries
TextFile(text) == [kind |-> "text", text |-> text, entries |-> <<>>]
ZipFile(entries) == [kind |-> "zip", text |-> <<>>, entries |-> entries]

ConnErrors == { "Access denied", "Can't connect to server" }

\* a database without tables
EmptyDb == [log |-> <<>>, tables |-> <<>>]

NoName == <<>>
NoExc == [type |-> "None", msg |-> "", cause |-> "None"]
NoRet == [success |-> FALSE, message |-> <<>>, results |-> <<>>]

\* one call made to the engine: its kind, the statement (execute only), the
\* position of the statement in sql_commands (dump statements only) and
\* whether the engine performed it
Call(kind, sql, ix, ok) == [kind |-> kind, sql |-> sql, ix |-> ix, ok |-> ok]

\* the locals of a process entering operation op with the given arguments
Enter(op, path, db) ==
    [ op |-> op,
      pc |-> CASE op = "compress" -> "compress"
               [] op = "decompress" -> "decompress"
               [] OTHER -> "connect",
      thread |-> FALSE,
      path |-> path, db_name |-> db, output |-> COMPRESSED_DUMP,
      attempts |-> 0, sleeps |-> <<>>, lastErr |-> "None", raised |-> NoExc,
      conn |-> "unset", activeDb |-> DefaultDb, pending |-> <<>>,
      sql_commands |-> <<>>, i |-> 0,
      tables |-> <<>>, t |-> 0, results |-> <<>>,
      calls |-> <<>>,
      ret |-> NoRet, outcome |-> "running" ]

(***************************************************************************)
(* get_db_connection (lines 28-39).                                        *)
(***************************************************************************)
\* CanAttempt with the bound off by one ("<=" for "<")
CanAttemptOffByOne(attempts) == attempts <= MAX_RETRIES

\* line 31: the loop condition
CanAttempt(attempts) == attempts < MAX_RETRIES

\* line 39: the exception raised after the loop, given the last caught error.
\* It is raised outside the except clause, with a fixed message and without
\* "from e": neither __cause__ nor __context__ nor the message holds the error.
TerminalError(last) ==
    [ type |-> "Exception",
      msg |-> "Failed to connect to database after multiple attempts",
      cause |-> "None" ]

\* where each operation continues once it holds a connection (line 54 on);
\* conn.cursor() builds a client-side object and makes no call to the engine
AfterConnect(l) ==
    CASE l.op = "import" -> "createdb"
      [] l.op = "export" -> "e_use"
      [] OTHER -> "c_duplicates"

\* the message of the (False, message) pair built by the except clause of op
ErrorMessage(op, msg) ==
    CASE op = "import" -> <<"Error importing dump: ", msg>>
      [] op = "export" -> <<"Error exporting dump: ", msg>>
      [] OTHER -> <<"Error during consistency checks: ", msg>>

\* the handler "except Exception as e: return False, ..." of the operation:
\* the pair is the pending return value while the finally clause runs
Except(l, msg) ==
    [l EXCEPT !.ret = [success |-> FALSE,
                       message |-> ErrorMessage(l.op, msg),
                       results |-> <<>>],
              !.pc = "finally"]

\* AfterConnectError without "attempts += 1"
AfterConnectErrorNoCount(l, e) ==
    [l EXCEPT !.lastErr = e,
              !.sleeps = Append(@, RETRY_DELAY)]

\* lines 35-38: the except clause of one attempt
AfterConnectError(l, e) ==
    [l EXCEPT !.lastErr = e,
              !.sleeps = Append(@, RETRY_DELAY),
              !.attempts = @ + 1]

\* lines 31-38: one pass of the retry loop
GetDbConnectionAttempt(p) ==
    LET l == loc[p] IN
    /\ l.pc = "connect"
    /\ CanAttempt(l.attempts)
    /\ \/ /\ loc' = [loc EXCEPT ![p] =
                [l EXCEPT !.conn = "open",
                          !.calls = Append(@, Call("connect", <<>>, 0, TRUE)),
                          !.pc = AfterConnect(l)]]
          /\ UNCHANGED budget
       \/ /\ budget > 0
          /\ budget' = budget - 1
          /\ \E e \in ConnErrors :
                loc' = [loc EXCEPT ![p] =
                    AfterConnectError(
                        [l EXCEPT !.calls =
                             Append(@, Call("connect", <<>>, 0, FALSE))], e)]
    /\ UNCHANGED <<engine, fs>>

\* line 39, and the caller's except clause that catches it
GetDbConnectionRaise(p) ==
    LET l == loc[p]
        exc == TerminalError(l.lastErr)
    IN
    /\ l.pc = "connect"
    /\ ~CanAttempt(l.attempts)
    /\ loc' = [loc EXCEPT ![p] = Except([l EXCEPT !.raised = exc], exc.msg)]
    /\ UNCHANGED <<engine, fs, budget>>

(***************************************************************************)
(* import_dump (lines 41-79).                                              *)
(***************************************************************************)
CreateDatabaseSql(name) == <<"CREATE DATABASE IF NOT EXISTS">> \o name
UseSql(name) == <<"USE">> \o name

\* HasName taking every name, the empty one too, for a database name
HasNameAlways(name) == TRUE

\* line 57: "if new_db_name:"
HasName(name) == name # NoName

\* Submits without the strip() test: blank commands are sent too
SubmitsBlank(command) == TRUE

\* line 66: "if command.strip():" - whether the command is sent to the engine
Submits(command) == NonBlank(command)

\* AfterStatementError without the inner try: the error reaches the outer
\* except clause and ends the import
AfterStatementErrorAborts(l) == Except(l, "statement failed")

\* lines 69-70: a mariadb.Error raised by a dump statement is printed and the
\* loop goes on with the next command
AfterStatementError(l) == [l EXCEPT !.i = @ + 1]

\* line 65: the position of the command the loop takes after position i
NextCommand(i) == i + 1

\* lines 57-58: CREATE DATABASE IF NOT EXISTS, or nothing without a name
ImportCreateDb(p) ==
    LET l == loc[p]
        sql == CreateDatabaseSql(l.db_name)
    IN
    /\ l.pc = "createdb"
    /\ IF ~HasName(l.db_name)
       THEN /\ loc' = [loc EXCEPT ![p] = [l EXCEPT !.pc = "open"]]
            /\ UNCHANGED <<engine, budget>>
       ELSE \/ /\ loc' = [loc EXCEPT ![p] =
                     [l EXCEPT !.calls = Append(@, Call("execute", sql, 0, TRUE)),
                               !.pc = "usedb"]]
               /\ engine' = IF l.db_name \in DOMAIN engine THEN engine
                            ELSE (l.db_name :> EmptyDb) @@ engine
               /\ UNCHANGED budget
            \/ /\ budget > 0
               /\ budget' = budget - 1
               /\ loc' = [loc EXCEPT ![p] =
                     Except([l EXCEPT !.calls =
                                 Append(@, Call("execute", sql, 0, FALSE))],
                            "CREATE DATABASE failed")]
               /\ UNCHANGED engine
    /\ UNCHANGED fs

\* line 59: USE new_db_name
ImportUseDb(p) ==
    LET l == loc[p]
        sql == UseSql(l.db_name)
    IN
    /\ l.pc = "usedb"
    /\ \/ /\ l.db_name \in DOMAIN engine
          /\ loc' = [loc EXCEPT ![p] =
                [l EXCEPT !.calls = Append(@, Call("execute", sql, 0, TRUE)),
                          !.activeDb = l.db_name,
                          !.pc = "open"]]
          /\ UNCHANGED budget
       \/ /\ budget > 0
          /\ budget' = budget - 1
          /\ loc' = [loc EXCEPT ![p] =
                Except([l EXCEPT !.calls =
                            Append(@, Call("execute", sql, 0, FALSE))],
                       "USE failed")]
    /\ UNCHANGED <<engine, fs>>

\* lines 62-63: open the dump file, read it and split it on ';'
ImportOpen(p) ==
    LET l == loc[p] IN
    /\ l.pc = "open"
    /\ \/ /\ l.path \in DOMAIN fs
          /\ fs[l.path].kind = "text"
          /\ loc' = [loc EXCEPT ![p] =
                [l EXCEPT !.sql_commands = Split(fs[l.path].text),
                          !.i = NextCommand(0),
                          !.pc = "replay"]]
          /\ UNCHANGED budget
       \/ /\ l.path \notin DOMAIN fs
          /\ loc' = [loc EXCEPT ![p] = Except(l, "No such file or directory")]
          /\ UNCHANGED budget
       \/ /\ l.path \in DOMAIN fs
          /\ fs[l.path].kind # "text"
          /\ loc' = [loc EXCEPT ![p] = Except(l, "codec can't decode")]
          /\ UNCHANGED budget
       \/ /\ l.path \in DOMAIN fs
          /\ budget > 0
          /\ budget' = budget - 1
          /\ loc' = [loc EXCEPT ![p] = Except(l, "Input/output error")]
    /\ UNCHANGED <<engine, fs>>

\* lines 65-70: one pass of the replay loop.  The engine holds a performed
\* statement in the transaction of the connection until the commit; a DROP
\* TABLE or CREATE TABLE statement commits the transaction by itself.
ImportExecute(p) ==
    LET l == loc[p]
        command == l.sql_commands[l.i]
        performed == Append(l.pending, [ix |-> l.i, sql |-> command])
        implicit == IsDdl(Statement(command))
    IN
    /\ l.pc = "replay"
    /\ l.i <= Len(l.sql_commands)
    /\ IF ~Submits(command)
       THEN /\ loc' = [loc EXCEPT ![p] = [l EXCEPT !.i = NextCommand(@)]]
            /\ UNCHANGED engine
       ELSE IF Executes(engine[l.activeDb].tables, command)
       THEN /\ loc' = [loc EXCEPT ![p] =
                  [l EXCEPT !.calls = Append(@, Call("execute", command, l.i, TRUE)),
                            !.pending = IF implicit THEN <<>> ELSE performed,
                            !.i = NextCommand(@)]]
            /\ engine' = IF implicit
                         THEN [engine EXCEPT ![l.activeDb] = Committed(@, performed)]
                         ELSE engine
       ELSE /\ loc' = [loc EXCEPT ![p] =
                  AfterStatementError(
                      [l EXCEPT !.calls =
                           Append(@, Call("execute", command, l.i, FALSE))])]
            /\ UNCHANGED engine
    /\ UNCHANGED <<fs, budget>>

\* lines 72-73: commit and "return True, ..." (the finally clause still runs)
ImportCommit(p) ==
    LET l == loc[p] IN
    /\ l.pc = "replay"
    /\ l.i > Len(l.sql_commands)
    /\ \/ /\ loc' = [loc EXCEPT ![p] =
                [l EXCEPT !.calls = Append(@, Call("commit", <<>>, 0, TRUE)),
                          !.pending = <<>>,
                          !.ret = [success |-> TRUE,
                                   message |-> <<"Dump imported successfully">>,
                                   results |-> <<>>],
                          !.pc = "finally"]]
          /\ engine' = [engine EXCEPT ![l.activeDb] = Committed(@, l.pending)]
          /\ UNCHANGED budget
       \/ /\ budget > 0
          /\ budget' = budget - 1
          /\ loc' = [loc EXCEPT ![p] =
                Except([l EXCEPT !.calls =
                            Append(@, Call("commit", <<>>, 0, FALSE))],
                       "commit failed")]
          /\ UNCHANGED engine
    /\ UNCHANGED fs

(***************************************************************************)
(* The finally clause of import_dump, export_dump and                      *)
(* check_data_consistency (lines 77-79, 143-145, 208-210).                 *)
(***************************************************************************)
\* ConnInLocals answering no: the finally clause never closes
ConnInLocalsNever(l) == FALSE

\* "if 'conn' in locals()"
ConnInLocals(l) == l.conn # "unset"

\* an exception raised by conn.close() inside the finally clause replaces the
\* pending return value and leaves the function
CloseRaises(l) ==
    [l EXCEPT !.calls = Append(@, Call("close", <<>>, 0, FALSE)),
              !.outcome = "raised",
              !.pc = "done"]

Finally(p) ==
    LET l == loc[p] IN
    /\ l.pc = "finally"
    /\ IF ~ConnInLocals(l)
       THEN /\ loc' = [loc EXCEPT ![p] =
                  [l EXCEPT !.outcome = "returned", !.pc = "done"]]
            /\ UNCHANGED budget
       ELSE \/ /\ loc' = [loc EXCEPT ![p] =
                     [l EXCEPT !.calls = Append(@, Call("close", <<>>, 0, TRUE)),
                               !.conn = "closed",
                               !.outcome = "returned",
                               !.pc = "done"]]
               /\ UNCHANGED budget
            \/ /\ budget > 0
               /\ budget' = budget - 1
               /\ loc' = [loc EXCEPT ![p] = CloseRaises(l)]
    /\ UNCHANGED <<engine, fs>>

(***************************************************************************)
(* export_dump (lines 81-145).                                             *)
(***************************************************************************)
RECURSIVE DoubleQuotes(_)
\* str(value).replace("'", "''")
DoubleQuotes(chars) ==
    IF chars = <<>> THEN <<>>
    ELSE (IF Head(chars) = Quote THEN <<Quote, Quote>> ELSE <<Head(chars)>>)
            \o DoubleQuotes(Tail(chars))

\* lines 129-134: the literal written for one value
SerializeValue(value) ==
    CASE value.t = "null" -> <<"NULL">>
      [] value.t = "num" -> value.v
      [] OTHER -> <<Quote>> \o DoubleQuotes(value.v) \o <<Quote>>

\* line 136: "(v1,v2,...)"
RowText(row) ==
    <<"(">> \o JoinWith([k \in 1..Len(row) |-> SerializeValue(row[k])], <<",">>)
            \o <<")">>

RECURSIVE RowsText(_, _)
\* lines 126-137: the rows from position k on, "," between them, ";" at the end
RowsText(rows, k) ==
    IF k > Len(rows) THEN <<>>
    ELSE RowText(rows[k])
            \o (IF k = Len(rows) THEN <<Semi, Blank>> ELSE <<",", Blank>>)
            \o RowsText(rows, k + 1)

\* InsertText without the test of line 122: the opening of an INSERT
\* statement is written for an empty table too
InsertTextAlways(table) ==
    <<"INSERT INTO ~", table.name, "~ (~">>
        \o JoinWith([k \in 1..Len(table.columns) |-> <<table.columns[k]>>],
                    <<"~,~">>)
        \o <<"~) VALUES", Blank>>
        \o RowsText(table.rows, 1)

\* lines 122-137: the INSERT statement of a table, nothing for an empty table
InsertText(table) ==
    IF table.rows = <<>> THEN <<>>
    ELSE <<"INSERT INTO ~", table.name, "~ (~">>
            \o JoinWith([k \in 1..Len(table.columns) |-> <<table.columns[k]>>],
                        <<"~,~">>)
            \o <<"~) VALUES", Blank>>
            \o RowsText(table.rows, 1)

\* lines 105-106
HeaderText(db) ==
    <<"-- Database dump generated on <now>", Blank, "-- Database: ">>
        \o db \o <<Blank, Blank>>

\* lines 111-112: written before SHOW CREATE TABLE is executed
DropText(name) ==
    <<Blank, "-- Table structure for table ~", name, "~", Blank,
      "DROP TABLE IF EXISTS ~", name, "~", Semi, Blank>>

\* lines 115-118: written once SHOW CREATE TABLE has answered
CreateText(table) ==
    table.create \o <<Semi, Blank, Blank,
                      "-- Dumping data for table ~", table.name, "~", Blank>>

\* the table of database db named name
TableOf(db, name) ==
    CHOOSE table \in { engine[db].tables[k] : k \in 1..Len(engine[db].tables) } :
        table.name = name

\* f.write: the file at path with text appended
Written(path, text) ==
    [fs EXCEPT ![path] = TextFile(@.text \o text)]

\* lines 96-97: USE db_name, or nothing without a name
ExportUseDb(p) ==
    LET l == loc[p]
        sql == UseSql(l.db_name)
    IN
    /\ l.pc = "e_use"
    /\ IF ~HasName(l.db_name)
       THEN /\ loc' = [loc EXCEPT ![p] = [l EXCEPT !.pc = "e_show"]]
            /\ UNCHANGED budget
       ELSE \/ /\ l.db_name \in DOMAIN engine
               /\ loc' = [loc EXCEPT ![p] =
                     [l EXCEPT !.calls = Append(@, Call("execute", sql, 0, TRUE)),
                               !.activeDb = l.db_name,
                               !.pc = "e_show"]]
               /\ UNCHANGED budget
            \/ /\ l.db_name \notin DOMAIN engine
               /\ loc' = [loc EXCEPT ![p] =
                     Except([l EXCEPT !.calls =
                                 Append(@, Call("execute", sql, 0, FALSE))],
                            "Unknown database")]
               /\ UNCHANGED budget
            \/ /\ l.db_name \in DOMAIN engine
               /\ budget > 0
               /\ budget' = budget - 1
               /\ loc' = [loc EXCEPT ![p] =
                     Except([l EXCEPT !.calls =
                                 Append(@, Call("execute", sql, 0, FALSE))],
                            "USE failed")]
    /\ UNCHANGED <<engine, fs>>

\* lines 100-101: SHOW TABLES and the list of the table names
ExportShowTables(p) ==
    LET l == loc[p]
        sql == <<"SHOW TABLES">>
        found == engine[l.activeDb].tables
    IN
    /\ l.pc = "e_show"
    /\ \/ /\ loc' = [loc EXCEPT ![p] =
                [l EXCEPT !.calls = Append(@, Call("execute", sql, 0, TRUE)),
                          !.tables = [k \in 1..Len(found) |-> found[k].name],
                          !.pc = "e_open"]]
          /\ UNCHANGED budget
       \/ /\ budget > 0
          /\ budget' = budget - 1
          /\ loc' = [loc EXCEPT ![p] =
                Except([l EXCEPT !.calls =
                            Append(@, Call("execute", sql, 0, FALSE))],
                       "SHOW TABLES failed")]
    /\ UNCHANGED <<engine, fs>>

\* lines 103-106: create the output file and write the header
ExportOpen(p) ==
    LET l == loc[p]
        db == IF HasName(l.db_name) THEN l.db_name ELSE DefaultDb
    IN
    /\ l.pc = "e_open"
    /\ \/ /\ fs' = (l.path :> TextFile(HeaderText(db))) @@ fs
          /\ loc' = [loc EXCEPT ![p] = [l EXCEPT !.t = 1, !.pc = "e_table"]]
          /\ UNCHANGED budget
       \/ /\ budget > 0
          /\ budget' = budget - 1
          /\ loc' = [loc EXCEPT ![p] = Except(l, "Permission denied")]
          /\ UNCHANGED fs
    /\ UNCHANGED engine

\* lines 109-115: the structure of the next table
ExportTable(p) ==
    LET l == loc[p]
        name == l.tables[l.t]
        sql == <<"SHOW CREATE TABLE ~", name, "~">>
    IN
    /\ l.pc = "e_table"
    /\ l.t <= Len(l.tables)
    /\ \/ /\ fs' = Written(l.path,
                     DropText(name) \o CreateText(TableOf(l.activeDb, name)))
          /\ loc' = [loc EXCEPT ![p] =
                [l EXCEPT !.calls = Append(@, Call("execute", sql, 0, TRUE)),
                          !.pc = "e_rows"]]
          /\ UNCHANGED budget
       \/ /\ budget > 0
          /\ budget' = budget - 1
          /\ fs' = Written(l.path, DropText(name))
          /\ loc' = [loc EXCEPT ![p] =
                Except([l EXCEPT !.calls =
                            Append(@, Call("execute", sql, 0, FALSE))],
                       "SHOW CREATE TABLE failed")]
    /\ UNCHANGED engine

\* lines 119-137: the rows of the table
ExportRows(p) ==
    LET l == loc[p]
        name == l.tables[l.t]
        sql == <<"SELECT * FROM ~", name, "~">>
    IN
    /\ l.pc = "e_rows"
    /\ \/ /\ fs' = Written(l.path, InsertText(TableOf(l.activeDb, name)))
          /\ loc' = [loc EXCEPT ![p] =
                [l EXCEPT !.calls = Append(@, Call("execute", sql, 0, TRUE)),
                          !.t = @ + 1,
                          !.pc = "e_table"]]
          /\ UNCHANGED budget
       \/ /\ budget > 0
          /\ budget' = budget - 1
          /\ loc' = [loc EXCEPT ![p] =
                Except([l EXCEPT !.calls =
                            Append(@, Call("execute", sql, 0, FALSE))],
                       "SELECT failed")]
          /\ UNCHANGED fs
    /\ UNCHANGED engine

\* line 139: "return True, ..." once every table is written
ExportReturn(p) ==
    LET l == loc[p] IN
    /\ l.pc = "e_table"
    /\ l.t > Len(l.tables)
    /\ loc' = [loc EXCEPT ![p] =
          [l EXCEPT !.ret = [success |-> TRUE,
                             message |-> <<"Dump exported successfully">>,
                             results |-> <<>>],
                    !.pc = "finally"]]
    /\ UNCHANGED <<engine, fs, budget>>

(***************************************************************************)
(* check_data_consistency (lines 165-210).                                 *)
(***************************************************************************)
\* what fetchall() may return for an audit query: no row, or violating rows
QueryAnswers == { <<>>, <<"row">>, <<"row", "row">> }

\* lines 184-188 and 196-200: the entry of one check (the elapsed time is a
\* measurement and is left out)
Entry(name, rows) == [name |-> name, count |-> Len(rows), data |-> rows]

\* line 207: the report returned by the except clause
FailedReport(report) == <<>>

\* the except clause of check_data_consistency
CheckExcept(l, msg) ==
    [Except(l, msg) EXCEPT !.ret.results = FailedReport(l.results)]

\* lines 174-188: check 1, duplicate seat assignments
CheckDuplicateSeats(p) ==
    LET l == loc[p]
        sql == <<"SELECT duplicate seats">>
    IN
    /\ l.pc = "c_duplicates"
    /\ \/ /\ \E rows \in QueryAnswers :
                loc' = [loc EXCEPT ![p] =
                    [l EXCEPT !.calls = Append(@, Call("execute", sql, 0, TRUE)),
                              !.results = Append(@, Entry("duplicate_seats", rows)),
                              !.pc = "c_overlapping"]]
          /\ UNCHANGED budget
       \/ /\ budget > 0
          /\ budget' = budget - 1
          /\ loc' = [loc EXCEPT ![p] =
                CheckExcept([l EXCEPT !.calls =
                                 Append(@, Call("execute", sql, 0, FALSE))],
                            "query failed")]
    /\ UNCHANGED <<engine, fs>>

\* lines 191-204: check 2, overlapping flights, and "return True, ...".  The
\* query text is the placeholder "[Implementation of overlapping flight
\* check]": an engine that parses it rejects it, an engine that does not
\* (a mock) answers it; both are outcomes of the call.
CheckOverlappingFlights(p) ==
    LET l == loc[p]
        sql == <<"[Implementation of overlapping flight check]">>
    IN
    /\ l.pc = "c_overlapping"
    /\ \/ \E rows \in QueryAnswers :
            LET report == Append(l.results, Entry("overlapping_flights", rows))
            IN  loc' = [loc EXCEPT ![p] =
                    [l EXCEPT !.calls = Append(@, Call("execute", sql, 0, TRUE)),
                              !.results = report,
                              !.ret = [success |-> TRUE,
                                       message |-> <<"Consistency checks completed">>,
                                       results |-> report],
                              !.pc = "finally"]]
       \/ loc' = [loc EXCEPT ![p] =
                CheckExcept([l EXCEPT !.calls =
                                 Append(@, Call("execute", sql, 0, FALSE))],
                            "You have an error in your SQL syntax")]
    /\ UNCHANGED <<engine, fs, budget>>

(***************************************************************************)
(* compress_file and decompress_file (lines 147-163).  Neither opens a     *)
(* connection; each is one try block whose except clause returns.          *)
(***************************************************************************)
\* os.path.basename: the paths of the model have no directory part
Basename(path) == path

Returned(l, success, message) ==
    [l EXCEPT !.ret = [success |-> success, message |-> message,
                       results |-> <<>>],
              !.outcome = "returned",
              !.pc = "done"]

\* lines 149-154
CompressFile(p) ==
    LET l == loc[p]
        input == l.path
        output == l.output
    IN
    /\ l.pc = "compress"
    /\ \/ /\ input \in DOMAIN fs
          /\ fs' = (output :> ZipFile(<<[name |-> Basename(input),
                                        data |-> fs[input]]>>)) @@ fs
          /\ loc' = [loc EXCEPT ![p] =
                Returned(l, TRUE, <<"File compressed successfully">>)]
          /\ UNCHANGED budget
       \/ /\ input \notin DOMAIN fs
          \* the archive is created before the missing input is noticed
          /\ fs' = (output :> ZipFile(<<>>)) @@ fs
          /\ loc' = [loc EXCEPT ![p] =
                Returned(l, FALSE, <<"Error compressing file: ",
                                     "No such file or directory">>)]
          /\ UNCHANGED budget
       \/ /\ budget > 0
          /\ budget' = budget - 1
          /\ loc' = [loc EXCEPT ![p] =
                Returned(l, FALSE, <<"Error compressing file: ",
                                     "Permission denied">>)]
          /\ UNCHANGED fs
    /\ UNCHANGED engine

\* zipf.extractall: every entry written under its name
Extracted(entries) ==
    [name \in { entries[k].name : k \in 1..Len(entries) } |->
        (CHOOSE e \in { entries[k] : k \in 1..Len(entries) } : e.name = name).data]

\* lines 158-163
DecompressFile(p) ==
    LET l == loc[p]
        input == l.path
    IN
    /\ l.pc = "decompress"
    /\ \/ /\ input \in DOMAIN fs
          /\ fs[input].kind = "zip"
          /\ fs' = Extracted(fs[input].entries) @@ fs
          /\ loc' = [loc EXCEPT ![p] =
                Returned(l, TRUE, <<"File decompressed successfully">>)]
          /\ UNCHANGED budget
       \/ /\ input \notin DOMAIN fs
          /\ loc' = [loc EXCEPT ![p] =
                Returned(l, FALSE, <<"Error decompressing file: ",
                                     "No such file or directory">>)]
          /\ UNCHANGED <<fs, budget>>
       \/ /\ input \in DOMAIN fs
          /\ fs[input].kind # "zip"
          /\ loc' = [loc EXCEPT ![p] =
                Returned(l, FALSE, <<"Error decompressing file: ",
                                     "File is not a zip file">>)]
          /\ UNCHANGED <<fs, budget>>
       \/ /\ input \in DOMAIN fs
          /\ fs[input].kind = "zip"
          /\ budget > 0
          /\ budget' = budget - 1
          /\ loc' = [loc EXCEPT ![p] =
                Returned(l, FALSE, <<"Error decompressing file: ",
                                     "Permission denied">>)]
          /\ UNCHANGED fs
    /\ UNCHANGED engine

(***************************************************************************)
(* The sequential program: one call of one public function by the main     *)
(* thread, for every argument and every state of the engine and the file   *)
(* system within the bounds.                                               *)
(***************************************************************************)
Main == 0

NewDb == <<"newdb">>

EXPORT_FILE == "export.sql"

\* the file system before an import or a compression: the dump file with
\* some text, a dump file that is no text, or no file
DumpFiles ==
    { (DUMP_FILE :> TextFile(text)) : text \in DumpTexts }
        \cup { (DUMP_FILE :> ZipFile(<<>>)), <<>> }

\* the file system before a decompression: an archive of a dump, a file that
\* is no archive, or no file
ArchiveFiles ==
    { (COMPRESSED_DUMP :> ZipFile(<<[name |-> DUMP_FILE, data |-> TextFile(text)]>>)) :
            text \in DumpTexts }
        \cup { (COMPRESSED_DUMP :> TextFile(<<"A">>)), <<>> }

TableNames == <<"Flight", "Booking", "Reserve", "Passenger">>

RowChoices ==
    { <<Num(<<"1">>), Null>>,
      <<Str(<<"o", Quote, "k">>), Str(<<"a", Semi, "b">>)>> }

RowLists == { <<>> } \cup SeqsUpTo(RowChoices, MaxRows)

TableAt(k, rows) ==
    [ name |-> TableNames[k],
      create |-> <<"CREATE TABLE ~", TableNames[k], "~ (...)">>,
      columns |-> TableColumns,
      rows |-> rows ]

\* the table lists of a database
Catalogs ==
    UNION { { [k \in 1..n |-> TableAt(k, rowsOf[k])] : rowsOf \in [1..n -> RowLists] } :
                n \in 0..MaxTables }

\* the databases of the engine before an export of database db: db with some
\* tables or, for a named database, an engine that does not hold it
Engines(db) ==
    IF db = NoName
    THEN { (DefaultDb :> [log |-> <<>>, tables |-> c]) : c \in Catalogs }
    ELSE { (DefaultDb :> EmptyDb) @@ (db :> [log |-> <<>>, tables |-> c]) :
                c \in Catalogs }
            \cup { (DefaultDb :> EmptyDb) }

InitImport ==
    /\ \E db \in {NoName, NewDb} : loc = (Main :> Enter("import", DUMP_FILE, db))
    /\ engine = (DefaultDb :> EmptyDb)
    /\ fs \in DumpFiles

InitExport ==
    /\ \E db \in {NoName, NewDb} :
          /\ loc = (Main :> Enter("export", EXPORT_FILE, db))
          /\ engine \in Engines(db)
    /\ fs = <<>>

InitCheck ==
    /\ loc = (Main :> Enter("check", DUMP_FILE, NoName))
    /\ engine = (DefaultDb :> EmptyDb)
    /\ fs = <<>>

InitCompress ==
    /\ loc = (Main :> Enter("compress", DUMP_FILE, NoName))
    /\ engine = (DefaultDb :> EmptyDb)
    /\ fs \in DumpFiles

InitDecompress ==
    /\ loc = (Main :> Enter("decompress", COMPRESSED_DUMP, NoName))
    /\ engine = (DefaultDb :> EmptyDb)
    /\ fs \in ArchiveFiles

\* no benchmark_import_export call
NoBenchmark ==
    [ pc |-> "none", iterations |-> 0, i |-> 0, results |-> <<>>,
      trace |-> <<>> ]

\* no threaded_import call
NoCall ==
    [ pc |-> "none", path |-> DUMP_FILE, prefix |-> NoName, num_threads |-> 0,
      chunks |-> <<>>, threads |-> <<>>, joined |-> 0, removed |-> 0,
      returned |-> <<>> ]

Init ==
    /\ budget = MaxFaults
    /\ co = NoCall
    /\ results = <<>>
    /\ bench = NoBenchmark
    /\ \/ InitImport
       \/ InitExport
       \/ InitCheck
       \/ InitCompress
       \/ InitDecompress

Procs == DOMAIN loc

\* a step of a process: a step of the function it runs, which leaves the
\* locals of threaded_import and the shared list alone
Run(Action(_)) == \E p \in Procs : Action(p) /\ UNCHANGED <<co, results, bench>>

Next ==
    \/ Run(GetDbConnectionAttempt)
    \/ Run(GetDbConnectionRaise)
    \/ Run(ImportCreateDb)
    \/ Run(ImportUseDb)
    \/ Run(ImportOpen)
    \/ Run(ImportExecute)
    \/ Run(ImportCommit)
    \/ Run(ExportUseDb)
    \/ Run(ExportShowTables)
    \/ Run(ExportOpen)
    \/ Run(ExportTable)
    \/ Run(ExportRows)
    \/ Run(ExportReturn)
    \/ Run(CheckDuplicateSeats)
    \/ Run(CheckOverlappingFlights)
    \/ Run(CompressFile)
    \/ Run(DecompressFile)
    \/ Run(Finally)

Spec == Init /\ [][Next]_vars

\* one call of export_dump and nothing else
InitExportCall ==
    /\ budget = MaxFaults
    /\ co = NoCall
    /\ results = <<>>
    /\ bench = NoBenchmark
    /\ InitExport

\* the steps of an export_dump call (lines 81-145)
NextExport ==
    \/ Run(GetDbConnectionAttempt)
    \/ Run(GetDbConnectionRaise)
    \/ Run(ExportUseDb)
    \/ Run(ExportShowTables)
    \/ Run(ExportOpen)
    \/ Run(ExportTable)
    \/ Run(ExportRows)
    \/ Run(ExportReturn)
    \/ Run(Finally)

SpecExport == InitExportCall /\ [][NextExport]_vars

(***************************************************************************)
(* threaded_import, split_dump_file and import_chunk (lines 249-303).      *)
(* The calling thread runs threaded_import; worker thread i is process i   *)
(* and runs import_chunk, that is import_dump and then the append.         *)
(***************************************************************************)
\* ThreadDbName without the index of the thread
ThreadDbNameShared(prefix, i) == prefix \o <<"_thread_", Digits[1]>>

\* line 258: f"{db_name_prefix}_thread_{i}"
ThreadDbName(prefix, i) == prefix \o <<"_thread_", Digits[i + 1]>>

\* line 282: the placeholder returns the path of the dump itself, num_chunks
\* times; no chunk file is written
SplitDumpFilePaths(dump_file_path, num_chunks) ==
    [k \in 1..num_chunks |-> dump_file_path]

\* a worker that has left import_chunk, ignoring whether it has
FinishedAlways(l) == TRUE

\* line 267: t.join() returns once the thread has left import_chunk
Finished(l) == l.pc = "exit"

\* import_chunk without its except clause: an import that raises leaves no
\* record
AppendedUnlessRaised(list, l) ==
    IF l.outcome = "raised" THEN list
    ELSE Append(list, [db_name |-> l.db_name, success |-> l.ret.success,
                       message |-> l.ret.message])

\* lines 291-303: the shared list after the append of a worker whose
\* import_dump has ended: the result of the import, or success = False with
\* the text of the exception that left it
Appended(list, l) ==
    IF l.outcome = "raised"
    THEN Append(list, [db_name |-> l.db_name, success |-> FALSE,
                       message |-> <<"close failed">>])
    ELSE Append(list, [db_name |-> l.db_name, success |-> l.ret.success,
                       message |-> l.ret.message])

\* line 252
SplitDumpFile ==
    /\ co.pc = "split"
    /\ co' = [co EXCEPT !.chunks = SplitDumpFilePaths(co.path, co.num_threads),
                        !.pc = "start"]
    /\ UNCHANGED <<loc, engine, fs, budget, results, bench>>

\* lines 257-264: one pass of the loop that starts the threads
StartThread ==
    LET i == Len(co.threads)
        worker == [Enter("import", co.chunks[i + 1], ThreadDbName(co.prefix, i))
                      EXCEPT !.thread = TRUE]
    IN
    /\ co.pc = "start"
    /\ i < Len(co.chunks)
    /\ loc' = (i :> worker) @@ loc
    /\ co' = [co EXCEPT !.threads = Append(@, i),
                        !.pc = IF i + 1 < Len(co.chunks) THEN "start" ELSE "join"]
    /\ UNCHANGED <<engine, fs, budget, results, bench>>

\* lines 286-303: the append that ends import_chunk
ImportChunkAppend(p) ==
    LET l == loc[p] IN
    /\ l.thread
    /\ l.pc = "done"
    /\ results' = Appended(results, l)
    /\ loc' = [loc EXCEPT ![p] = [l EXCEPT !.pc = "exit"]]
    /\ UNCHANGED <<engine, fs, budget, co, bench>>

\* lines 266-267: one pass of the loop that joins the threads
JoinThread ==
    /\ co.pc = "join"
    /\ co.joined < Len(co.threads)
    /\ Finished(loc[co.threads[co.joined + 1]])
    /\ co' = [co EXCEPT !.joined = @ + 1,
                        !.pc = IF co.joined + 1 < Len(co.threads)
                               THEN "join" ELSE "cleanup"]
    /\ UNCHANGED <<loc, engine, fs, budget, results, bench>>

\* lines 270-274: one pass of the cleanup loop; a failing os.remove is ignored
RemoveChunk ==
    LET path == co.chunks[co.removed + 1] IN
    /\ co.pc = "cleanup"
    /\ co.removed < Len(co.chunks)
    /\ co' = [co EXCEPT !.removed = @ + 1]
    /\ \/ /\ path \in DOMAIN fs
          /\ fs' = [f \in DOMAIN fs \ {path} |-> fs[f]]
          /\ UNCHANGED budget
       \/ /\ path \notin DOMAIN fs
          /\ UNCHANGED <<fs, budget>>
       \/ /\ path \in DOMAIN fs
          /\ budget > 0
          /\ budget' = budget - 1
          /\ UNCHANGED fs
    /\ UNCHANGED <<loc, engine, results, bench>>

\* line 276
ThreadedReturn ==
    /\ co.pc = "cleanup"
    /\ co.removed = Len(co.chunks)
    /\ co' = [co EXCEPT !.returned = results, !.pc = "returned"]
    /\ UNCHANGED <<loc, engine, fs, budget, results, bench>>

\* the file system before a threaded import
ThreadDumpFiles ==
    { (DUMP_FILE :> TextFile(Join(ps))) : ps \in SeqsUpTo(Pieces, MaxThreadPieces) }
        \cup { <<>> }

InitThreaded ==
    /\ loc = <<>>
    /\ engine = (DefaultDb :> EmptyDb)
    /\ fs \in ThreadDumpFiles
    /\ budget = MaxThreadFaults
    /\ results = <<>>
    /\ bench = NoBenchmark
    /\ \E n \in 1..MaxThreads :
          co = [NoCall EXCEPT !.pc = "split", !.prefix = <<"bench">>,
                              !.num_threads = n]

NextThreaded ==
    \/ SplitDumpFile
    \/ StartThread
    \/ Run(GetDbConnectionAttempt)
    \/ Run(GetDbConnectionRaise)
    \/ Run(ImportCreateDb)
    \/ Run(ImportUseDb)
    \/ Run(ImportOpen)
    \/ Run(ImportExecute)
    \/ Run(ImportCommit)
    \/ Run(Finally)
    \/ \E p \in Procs : ImportChunkAppend(p)
    \/ JoinThread
    \/ RemoveChunk
    \/ ThreadedReturn

SpecThreaded == InitThreaded /\ [][NextThreaded]_vars

(***************************************************************************)
(* benchmark_import_export (lines 212-247).  The main thread calls         *)
(* import_dump and export_dump in turn; process Main is the call in        *)
(* progress.  The function has no try block: an exception that leaves      *)
(* import_dump or export_dump leaves it too.                               *)
(***************************************************************************)
\* line 219: f"benchmark_db_{i}"
BenchmarkDb(i) == <<"benchmark_db_", Digits[i + 1]>>

\* line 233: f"benchmark_export_{i}.sql"
BenchmarkExportFile(i) ==
    <<"benchmark_export_1.sql", "benchmark_export_2.sql",
      "benchmark_export_3.sql", "benchmark_export_4.sql">>[i]

\* None as the error of a record
NoError == <<>>

\* lines 223-229: the record of an iteration whose import failed (it has no
\* export_file key; the times are "None" or "time", a measurement)
ImportFailedRecord(i, message) ==
    [ iteration |-> i, success |-> FALSE, error |-> message,
      import_time |-> "None", export_time |-> "None", export_file |-> "absent" ]

\* lines 238-245: the record of an iteration whose export was called
ExportedRecord(i, success, message) ==
    [ iteration |-> i, success |-> success,
      error |-> IF success THEN NoError ELSE message,
      import_time |-> "time",
      export_time |-> IF success THEN "time" ELSE "None",
      export_file |-> IF success THEN BenchmarkExportFile(i) ELSE "None" ]

\* an entry of the trace of a benchmark: a call of op made by iteration i, or
\* the end of that call (returned with success or not, or raised)
Called(op, i) ==
    [ev |-> "call", op |-> op, i |-> i, success |-> FALSE, message |-> <<>>]
Ended(op, i, l) ==
    [ev |-> l.outcome, op |-> op, i |-> i,
     success |-> l.outcome = "returned" /\ l.ret.success,
     message |-> IF l.outcome = "returned" THEN l.ret.message ELSE <<>>]

\* line 222: "if not success:"
ImportSucceeded(l) == l.ret.success

\* the text export_dump writes for a database named db holding tables
\* (lines 105-137)
RECURSIVE TablesText(_, _)
TablesText(tables, k) ==
    IF k > Len(tables) THEN <<>>
    ELSE DropText(tables[k].name) \o CreateText(tables[k]) \o InsertText(tables[k])
            \o TablesText(tables, k + 1)

DumpOf(db, tables) == HeaderText(db) \o TablesText(tables, 1)

\* lines 216-219: the next iteration calls import_dump
BenchmarkImport ==
    /\ bench.pc = "loop"
    /\ bench.i <= bench.iterations
    /\ loc' = (Main :> Enter("import", DUMP_FILE, BenchmarkDb(bench.i)))
    /\ bench' = [bench EXCEPT !.pc = "import",
                              !.trace = Append(@, Called("import", bench.i))]
    /\ UNCHANGED <<engine, fs, budget, co, results>>

\* lines 219-235: import_dump has ended; the failure record and "continue",
\* or the call of export_dump
BenchmarkImported ==
    LET l == loc[Main]
        i == bench.i
        trace == Append(bench.trace, Ended("import", i, l))
    IN
    /\ bench.pc = "import"
    /\ l.pc = "done"
    /\ IF l.outcome = "raised"
       THEN /\ bench' = [bench EXCEPT !.pc = "raised", !.trace = trace]
            /\ UNCHANGED loc
       ELSE IF ~ImportSucceeded(l)
       THEN /\ bench' = [bench EXCEPT
                            !.results = Append(@, ImportFailedRecord(i, l.ret.message)),
                            !.i = @ + 1,
                            !.pc = "loop",
                            !.trace = trace]
            /\ UNCHANGED loc
       ELSE /\ bench' = [bench EXCEPT
                            !.pc = "export",
                            !.trace = Append(trace, Called("export", i))]
            /\ loc' = (Main :> Enter("export", BenchmarkExportFile(i), BenchmarkDb(i)))
    /\ UNCHANGED <<engine, fs, budget, co, results>>

\* lines 235-245: export_dump has ended; the record of the iteration
BenchmarkExported ==
    LET l == loc[Main]
        i == bench.i
        trace == Append(bench.trace, Ended("export", i, l))
    IN
    /\ bench.pc = "export"
    /\ l.pc = "done"
    /\ IF l.outcome = "raised"
       THEN bench' = [bench EXCEPT !.pc = "raised", !.trace = trace]
       ELSE bench' = [bench EXCEPT
                         !.results = Append(@, ExportedRecord(i, l.ret.success,
                                                              l.ret.message)),
                         !.i = @ + 1,
                         !.pc = "loop",
                         !.trace = trace]
    /\ UNCHANGED <<loc, engine, fs, budget, co, results>>

\* line 247
BenchmarkReturn ==
    /\ bench.pc = "loop"
    /\ bench.i > bench.iterations
    /\ bench' = [bench EXCEPT !.pc = "returned"]
    /\ UNCHANGED <<loc, engine, fs, budget, co, results>>

\* the dump file before a benchmark: the dump of a database of at most one
\* table, a text with a statement the engine rejects, or no file
BenchmarkDumpFiles ==
    { (DUMP_FILE :> TextFile(DumpOf(DefaultDb, c))) : c \in { d \in Catalogs : Len(d) <= 1 } }
        \cup { (DUMP_FILE :> TextFile(<<"A", Semi, "X", Semi>>)), <<>> }

InitBenchmark ==
    /\ loc = <<>>
    /\ engine = (DefaultDb :> EmptyDb)
    /\ fs \in BenchmarkDumpFiles
    /\ budget = MaxBenchmarkFaults
    /\ co = NoCall
    /\ results = <<>>
    /\ \E n \in 0..MaxIterations :
          bench = [NoBenchmark EXCEPT !.pc = "loop", !.iterations = n, !.i = 1]

NextBenchmark ==
    \/ BenchmarkImport
    \/ BenchmarkImported
    \/ BenchmarkExported
    \/ BenchmarkReturn
    \/ Run(GetDbConnectionAttempt)
    \/ Run(GetDbConnectionRaise)
    \/ Run(ImportCreateDb)
    \/ Run(ImportUseDb)
    \/ Run(ImportOpen)
    \/ Run(ImportExecute)
    \/ Run(ImportCommit)
    \/ Run(ExportUseDb)
    \/ Run(ExportShowTables)
    \/ Run(ExportOpen)
    \/ Run(ExportTable)
    \/ Run(ExportRows)
    \/ Run(ExportReturn)
    \/ Run(Finally)

SpecBenchmark == InitBenchmark /\ [][NextBenchmark]_vars

(***************************************************************************)
(* The round trip of a dump: import_dump of the dump file and export_dump  *)
(* of the imported database, which is one iteration of                     *)
(* benchmark_import_export, and then import_dump of the exported file into *)
(* a new database.  The dump file is the dump of the tables of the default *)
(* database, and the environment injects no fault.                         *)
(***************************************************************************)
ROUND_TRIP_DB == <<"round_trip_db">>

\* import_dump(export_file, new database), once the benchmark has returned
\* the record of a successful iteration
Reimport ==
    /\ bench.pc = "returned"
    /\ Len(bench.results) = 1
    /\ bench.results[1].success
    /\ loc' = (Main :> Enter("import", bench.results[1].export_file, ROUND_TRIP_DB))
    /\ bench' = [bench EXCEPT !.pc = "reimport"]
    /\ UNCHANGED <<engine, fs, budget, co, results>>

InitRoundTrip ==
    /\ loc = <<>>
    /\ \E c \in Catalogs :
          /\ engine = (DefaultDb :> [log |-> <<>>, tables |-> c])
          /\ fs = (DUMP_FILE :> TextFile(DumpOf(DefaultDb, c)))
    /\ budget = 0
    /\ co = NoCall
    /\ results = <<>>
    /\ bench = [NoBenchmark EXCEPT !.pc = "loop", !.iterations = 1, !.i = 1]

NextRoundTrip ==
    \/ BenchmarkImport
    \/ BenchmarkImported
    \/ BenchmarkExported
    \/ BenchmarkReturn
    \/ Reimport
    \/ Run(GetDbConnectionAttempt)
    \/ Run(ImportCreateDb)
    \/ Run(ImportUseDb)
    \/ Run(ImportOpen)
    \/ Run(ImportExecute)
    \/ Run(ImportCommit)
    \/ Run(ExportUseDb)
    \/ Run(ExportShowTables)
    \/ Run(ExportOpen)
    \/ Run(ExportTable)
    \/ Run(ExportRows)
    \/ Run(ExportReturn)
    \/ Run(Finally)

SpecRoundTrip == InitRoundTrip /\ [][NextRoundTrip]_vars

\* the sequential program under the scheduling of a running thread: a step
\* that can be taken is eventually taken
FairSpec == Spec /\ WF_vars(Next)

(***************************************************************************)
(* Properties.                                                             *)
(***************************************************************************)
ConnOps == {"import", "export", "check"}

\* the calls of locals l that satisfy Test
CallsWhere(l, Test(_)) == SelectSeq(l.calls, Test)

IsConnect(c) == c.kind = "connect"
IsFailedConnect(c) == c.kind = "connect" /\ ~c.ok
IsStatement(c) == c.kind \in {"execute", "commit"}
IsDumpStatement(c) == c.kind = "execute" /\ c.ix > 0

FailedConnects(l) == Len(CallsWhere(l, IsFailedConnect))

\* the database an import or export works on
TargetDb(l) == IF HasName(l.db_name) THEN l.db_name ELSE DefaultDb

\* C1: when every one of the MAX_RETRIES connection attempts fails,
\* get_db_connection raises, and import_dump, export_dump and
\* check_data_consistency make no execute and no commit call and return
\* success = False.
C1_NoStatementWithoutConnection ==
    \A p \in Procs :
        LET l == loc[p] IN
        (l.op \in ConnOps /\ FailedConnects(l) = MAX_RETRIES) =>
            /\ CallsWhere(l, IsStatement) = <<>>
            /\ l.pc # "connect" => l.raised = TerminalError(l.lastErr)
            /\ l.pc = "done" => (l.outcome = "returned" /\ ~l.ret.success)

C1_Witness ==
    \E p \in Procs :
        /\ loc[p].op = "import"
        /\ loc[p].pc = "done"
        /\ FailedConnects(loc[p]) = MAX_RETRIES

\* the retry loop of get_db_connection in any state
C2_State ==
    \A p \in Procs :
        LET l == loc[p]
            n == Len(l.calls)
        IN
        /\ Len(CallsWhere(l, IsConnect)) <= MAX_RETRIES
        /\ \A k \in 1..n : (IsConnect(l.calls[k]) /\ l.calls[k].ok) =>
              /\ \A j \in 1..n : IsConnect(l.calls[j]) => j <= k
              /\ l.conn # "unset"
        /\ l.conn # "unset" => \E k \in 1..n : IsConnect(l.calls[k]) /\ l.calls[k].ok
        /\ l.raised # NoExc =>
              /\ FailedConnects(l) = MAX_RETRIES
              /\ Len(CallsWhere(l, IsConnect)) = MAX_RETRIES
              /\ l.conn = "unset"
        /\ (l.op \in ConnOps /\ l.pc # "connect") =>
              (l.conn # "unset" \/ l.raised # NoExc)

\* C2: get_db_connection makes at most MAX_RETRIES attempts, returns the
\* connection of the first successful attempt without a further attempt,
\* raises only after exactly MAX_RETRIES failed attempts, and always ends.
C2_BoundedRetry ==
    /\ []C2_State
    /\ <>(\A p \in Procs : loc[p].pc # "connect")

C2_Witness ==
    \E p \in Procs :
        /\ loc[p].conn = "open"
        /\ FailedConnects(loc[p]) = MAX_RETRIES - 1

\* C3: the terminal error of get_db_connection carries the error of the last
\* failed attempt.
C3_TerminalErrorCarriesCause ==
    \A p \in Procs :
        loc[p].raised # NoExc => loc[p].raised.cause = loc[p].lastErr

\* the positions below i of the commands of cmds that satisfy Test, in order
PositionsWhere(cmds, i, Test(_)) ==
    SelectSeq(Positions(Len(cmds)), LAMBDA k : k < i /\ Test(cmds[k]))

IsStatementText(command) == Submits(command)
IsValidStatementText(command) == Submits(command) /\ EngineAccepts(command)
IsMalformedText(command) == Submits(command) /\ ~EngineAccepts(command)

\* an import that has ended, of a readable dump file, in a run where the
\* environment injected no fault: only the text of the dump decides it
FaultFreeImportDone(l) ==
    /\ l.op = "import"
    /\ l.pc = "done"
    /\ budget = MaxFaults
    /\ l.path \in DOMAIN fs
    /\ fs[l.path].kind = "text"

\* C4: a dump with one malformed statement among N statements: import_dump
\* returns success = True, the N-1 valid statements take effect (they are
\* committed to the target database, in order), and every statement after
\* the malformed one is still executed.
C4_OneMalformedStatement ==
    \A p \in Procs :
        LET l == loc[p]
            cmds == Split(fs[l.path].text)
            end == Len(cmds) + 1
            all == PositionsWhere(cmds, end, IsStatementText)
            valid == PositionsWhere(cmds, end, IsValidStatementText)
            bad == PositionsWhere(cmds, end, IsMalformedText)
        IN
        (FaultFreeImportDone(l) /\ Len(bad) = 1) =>
            /\ l.outcome = "returned"
            /\ l.ret.success
            /\ Len(engine[TargetDb(l)].log) = Len(all) - 1
            /\ engine[TargetDb(l)].log =
                  [k \in 1..Len(valid) |-> [ix |-> valid[k], sql |-> cmds[valid[k]]]]
            /\ \A k \in 1..Len(all) : all[k] > bad[1] =>
                  \E c \in 1..Len(l.calls) :
                      IsDumpStatement(l.calls[c]) /\ l.calls[c].ix = all[k]

\* a malformed statement between two valid ones
C4_Witness ==
    \E p \in Procs :
        LET l == loc[p]
            cmds == Split(fs[l.path].text)
            end == Len(cmds) + 1
            valid == PositionsWhere(cmds, end, IsValidStatementText)
            bad == PositionsWhere(cmds, end, IsMalformedText)
        IN
        /\ FaultFreeImportDone(l)
        /\ Len(bad) = 1
        /\ Len(valid) = 2
        /\ valid[1] < bad[1]
        /\ bad[1] < valid[2]
        /\ Len(engine[TargetDb(l)].log) = 2

\* C5: import_dump submits the non-blank commands of the dump in file order,
\* each at most once, whether or not commands between them fail: the dump
\* statements submitted so far are the non-blank commands before the loop
\* position, in order.
C5_ReplayInFileOrder ==
    \A p \in Procs :
        LET l == loc[p]
            sent == CallsWhere(l, IsDumpStatement)
            due == PositionsWhere(l.sql_commands, l.i, NonBlank)
        IN
        l.op = "import" =>
            /\ l.i > 0 => l.sql_commands = Split(fs[l.path].text)
            /\ Len(sent) = Len(due)
            /\ \A k \in 1..Len(sent) :
                  /\ sent[k].ix = due[k]
                  /\ sent[k].sql = l.sql_commands[due[k]]
            /\ \A j, k \in 1..Len(sent) : j < k => sent[j].ix < sent[k].ix
            /\ l.pc = "done" =>
                  (l.i = 0 \/ l.i = Len(l.sql_commands) + 1)

\* two statements submitted around one that failed
C5_Witness ==
    \E p \in Procs :
        LET sent == CallsWhere(loc[p], IsDumpStatement) IN
        /\ loc[p].op = "import"
        /\ loc[p].pc = "done"
        /\ Len(sent) = 3
        /\ sent[1].ok /\ ~sent[2].ok /\ sent[3].ok
        /\ sent[1].sql # sent[3].sql

\* str(e) for the failures the claim names: the connection, creating or
\* selecting the database, reading the dump file
NamedCauses ==
    { "Failed to connect to database after multiple attempts",
      "CREATE DATABASE failed", "USE failed",
      "No such file or directory", "Input/output error", "codec can't decode" }

ImportReturnedFalse(l) ==
    /\ l.op = "import"
    /\ l.pc = "done"
    /\ l.outcome = "returned"
    /\ ~l.ret.success

IsCommitted(c) == c.kind = "commit" /\ c.ok

\* C6 as stated: import_dump returns success = False only when opening the
\* connection, creating or selecting the database, or reading the dump file
\* fails.
C6_FalseOnlyOnNamedFailures ==
    \A p \in Procs :
        ImportReturnedFalse(loc[p]) => loc[p].ret.message[2] \in NamedCauses

\* C6 as amended: import_dump returns success = False only when opening the
\* connection, creating or selecting the database, reading the dump file or
\* the final commit fails; failures of dump statements never change the
\* result: an import whose commit succeeded never returns False.
C6_FalseOnlyOnTerminalFailures ==
    \A p \in Procs :
        LET l == loc[p] IN
        /\ ImportReturnedFalse(l) =>
              /\ l.ret.message[2] \in NamedCauses \cup {"commit failed"}
              /\ CallsWhere(l, IsCommitted) = <<>>
        /\ (l.op = "import" /\ l.pc = "done" /\ l.outcome = "returned"
                /\ CallsWhere(l, IsCommitted) # <<>>) => l.ret.success

IsFailedDumpStatement(c) == IsDumpStatement(c) /\ ~c.ok

\* an import that returned True although two of its statements failed
C6_Witness ==
    \E p \in Procs :
        /\ loc[p].op = "import"
        /\ loc[p].pc = "done"
        /\ loc[p].outcome = "returned"
        /\ loc[p].ret.success
        /\ Len(CallsWhere(loc[p], IsFailedDumpStatement)) = 2

\* C7: import_dump, export_dump, compress_file and decompress_file end by
\* returning a (success, message) pair, never by raising, whatever fails.
C7_NoFaultEscapes ==
    \A p \in Procs :
        (loc[p].op \in {"import", "export", "compress", "decompress"}
            /\ loc[p].pc = "done") => loc[p].outcome = "returned"

\* the statements of a dump text: its non-blank commands, in order
StatementsOf(text) == SelectSeq(Split(text), NonBlank)

RECURSIVE ChunkStatements(_, _)
\* the statements of the chunk files from position k on, chunk after chunk
ChunkStatements(chunks, k) ==
    IF k > Len(chunks) THEN <<>>
    ELSE StatementsOf(fs[chunks[k]].text) \o ChunkStatements(chunks, k + 1)

RECURSIVE SubmittedBy(_)
\* the number of dump statements the processes of set ps submitted
SubmittedBy(ps) ==
    IF ps = {} THEN 0
    ELSE LET p == CHOOSE q \in ps : TRUE
         IN  Len(CallsWhere(loc[p], IsDumpStatement)) + SubmittedBy(ps \ {p})

\* the records of the list for database db
RecordsFor(list, db) == SelectSeq(list, LAMBDA r : r.db_name = db)

\* the workers are joined and no chunk file is removed yet
AllJoined == co.pc = "cleanup" /\ co.removed = 0

\* C8: threaded_import returns one record per worker, one per target
\* database, and the chunks of split_dump_file are a disjoint cover of the
\* statements of the dump that keeps their order: over all workers every
\* statement is submitted once, none twice and none dropped.
C8_ChunksPartitionDump ==
    /\ co.pc = "returned" =>
          /\ Len(co.returned) = co.num_threads
          /\ \A i \in 0..(co.num_threads - 1) :
                Len(RecordsFor(co.returned, ThreadDbName(co.prefix, i))) = 1
    /\ (co.chunks # <<>> /\ co.removed = 0 /\ co.path \in DOMAIN fs) =>
          ChunkStatements(co.chunks, 1) = StatementsOf(fs[co.path].text)
    /\ (AllJoined /\ budget = MaxThreadFaults /\ co.path \in DOMAIN fs) =>
          SubmittedBy(Procs) = Len(StatementsOf(fs[co.path].text))

\* C9: under every interleaving each worker appends exactly one record to the
\* shared list, whether its import returned True, returned False or raised:
\* once the workers are joined the list holds one record per worker.
C9_NoLostRecord ==
    /\ \A p \in Procs :
          Len(RecordsFor(results, loc[p].db_name)) =
              (IF loc[p].pc = "exit" THEN 1 ELSE 0)
    /\ Len(results) = Cardinality({ p \in Procs : loc[p].pc = "exit" })
    /\ co.pc \in {"cleanup", "returned"} =>
          /\ Cardinality(Procs) = co.num_threads
          /\ Len(results) = co.num_threads
    /\ co.pc = "returned" => Len(co.returned) = co.num_threads

\* two workers, the second appends first, one import raised and one succeeded
C9_Witness ==
    /\ co.pc = "returned"
    /\ Len(co.returned) = 2
    /\ co.returned[1].db_name = ThreadDbName(co.prefix, 1)
    /\ \E p, q \in Procs :
          /\ loc[p].outcome = "raised"
          /\ loc[q].outcome = "returned"
          /\ loc[q].ret.success

\* C10: threaded_import removes chunk files and returns only once every
\* worker it started has left import_chunk; the list it returns is the list
\* after the last append.
C10_ReturnsAfterAllWorkers ==
    /\ co.pc \in {"cleanup", "returned"} =>
          /\ Len(co.threads) = co.num_threads
          /\ co.joined = co.num_threads
          /\ \A p \in Procs : loc[p].pc = "exit"
    /\ (\E p \in Procs : loc[p].pc # "exit") =>
          /\ co.pc \in {"start", "join"}
          /\ co.removed = 0
          /\ co.returned = <<>>
    /\ co.pc = "returned" => co.returned = results

\* a call that returned the records of two workers, one failed, one succeeded
C10_Witness ==
    /\ co.pc = "returned"
    /\ co.num_threads = 2
    /\ co.removed = 2
    /\ \E p, q \in Procs :
          /\ ~loc[p].ret.success
          /\ loc[q].ret.success
    /\ Len(co.returned) = 2

\* the statements of locals l that name or work on a database: CREATE
\* DATABASE and USE name it, a dump statement works on the database in use
IsNamingStatement(c) == c.kind = "execute" /\ c.ix = 0

\* C11: in one threaded_import call worker i is given the database name
\* <prefix>_thread_<i>, the names of two workers differ, every dump statement
\* of a worker is issued with the worker's own database in use, and so no two
\* workers issue a statement against the same database.
C11_DistinctTargetDatabases ==
    \A p \in Procs :
        LET l == loc[p] IN
        /\ l.thread
        /\ l.db_name = co.prefix \o <<"_thread_", Digits[p + 1]>>
        /\ \A k \in 1..Len(l.calls) :
              /\ IsNamingStatement(l.calls[k]) =>
                    l.calls[k].sql \in {CreateDatabaseSql(l.db_name), UseSql(l.db_name)}
              /\ IsDumpStatement(l.calls[k]) => l.activeDb = l.db_name
        /\ \A q \in Procs \ {p} :
              /\ loc[q].db_name # l.db_name
              /\ (CallsWhere(l, IsDumpStatement) # <<>>
                    /\ CallsWhere(loc[q], IsDumpStatement) # <<>>) =>
                        loc[q].activeDb # l.activeDb

\* two workers are replaying at the same time and each has issued a dump
\* statement
C11_Witness ==
    \E p, q \in Procs :
        /\ p # q
        /\ loc[p].pc = "replay" /\ loc[q].pc = "replay"
        /\ CallsWhere(loc[p], IsDumpStatement) # <<>>
        /\ CallsWhere(loc[q], IsDumpStatement) # <<>>

\* C13: in every run of check_data_consistency the entry recorded for a
\* completed check is in the report the call returns, also when a later
\* check's query has failed.
C13_CompletedEntriesReturned ==
    \A p \in Procs :
        LET l == loc[p] IN
        (l.op = "check" /\ l.pc = "done" /\ l.outcome = "returned") =>
            \A k \in 1..Len(l.results) :
                \E j \in 1..Len(l.ret.results) : l.ret.results[j] = l.results[k]

\* the positions of the calls of locals l that are the statement sql,
\* performed by the engine
PerformedAt(l, sql) ==
    { k \in 1..Len(l.calls) : l.calls[k] = Call("execute", sql, 0, TRUE) }

\* C16: an import_dump given a database name issues CREATE DATABASE IF NOT
\* EXISTS and then USE for that name before the first dump statement, and
\* issues no dump statement when either of the two has failed; an import_dump
\* given no name issues neither.
C16_DatabaseSelectedBeforeReplay ==
    \A p \in Procs :
        LET l == loc[p]
            naming == CallsWhere(l, IsNamingStatement)
            create == CreateDatabaseSql(l.db_name)
            use == UseSql(l.db_name)
        IN
        l.op = "import" =>
            /\ l.db_name = NoName => naming = <<>>
            /\ l.db_name # NoName =>
                  /\ Len(naming) <= 2
                  /\ Len(naming) >= 1 => naming[1].sql = create
                  /\ Len(naming) = 2 => naming[1].ok /\ naming[2].sql = use
                  /\ \A k \in 1..Len(l.calls) :
                        IsDumpStatement(l.calls[k]) =>
                            \E a \in PerformedAt(l, create), b \in PerformedAt(l, use) :
                                a < b /\ b < k
                  /\ (\E k \in 1..Len(naming) : ~naming[k].ok) =>
                        CallsWhere(l, IsDumpStatement) = <<>>

\* a named import has issued both statements and then a dump statement
C16_Witness ==
    \E p \in Procs :
        LET l == loc[p] IN
        /\ l.op = "import"
        /\ l.db_name # NoName
        /\ PerformedAt(l, CreateDatabaseSql(l.db_name)) # {}
        /\ PerformedAt(l, UseSql(l.db_name)) # {}
        /\ CallsWhere(l, IsDumpStatement) # <<>>

IsCommit(c) == c.kind = "commit"
IsClose(c) == c.kind = "close"

\* the positions of the calls of locals l that satisfy Test
CallPositions(l, Test(_)) == { k \in 1..Len(l.calls) : Test(l.calls[k]) }

\* the connection of locals l was obtained and no call made on it other than
\* a dump statement has failed
ConnectionSurvives(l) ==
    /\ l.conn # "unset"
    /\ \A k \in 1..Len(l.calls) :
          (~IsConnect(l.calls[k]) /\ ~IsDumpStatement(l.calls[k])) => l.calls[k].ok

\* import_dump has read the dump file and entered the replay loop
ReplayStarted(l) == l.i > 0

\* the positions of the non-blank commands of the dump file read by locals l
Commands(l) == { k \in 1..Len(l.sql_commands) : NonBlank(l.sql_commands[k]) }

\* C17 as claimed: whenever import_dump has obtained a connection and the
\* connection survives, exactly one commit has been issued when it ends.
C17_CommitWheneverConnected ==
    \A p \in Procs :
        LET l == loc[p] IN
        (l.op = "import" /\ l.pc = "done" /\ ConnectionSurvives(l)) =>
            Cardinality(CallPositions(l, IsCommit)) = 1

\* C17: import_dump issues at most one commit; once it has obtained a
\* connection, selected the database and read the dump file it ends with
\* exactly one commit issued, after every non-blank command of the file was
\* attempted and before the connection is closed, whatever number of
\* statements failed; when the database selection or the reading of the file
\* fails no commit is issued; it never returns success = True without a commit
\* performed by the engine.
C17_CommitOnceAfterReplay ==
    \A p \in Procs :
        LET l == loc[p]
            commits == CallPositions(l, IsCommit)
        IN
        l.op = "import" =>
            /\ Cardinality(commits) <= 1
            /\ \A c \in commits :
                  /\ \A k \in CallPositions(l, IsDumpStatement) : k < c
                  /\ \A k \in CallPositions(l, IsClose) : c < k
                  /\ { l.calls[k].ix : k \in CallPositions(l, IsDumpStatement) }
                        = Commands(l)
            /\ (l.pc \in {"finally", "done"} /\ ReplayStarted(l)) =>
                  Cardinality(commits) = 1
            /\ (l.pc \in {"finally", "done"} /\ ~ReplayStarted(l)) => commits = {}
            /\ l.ret.success => \E c \in commits : l.calls[c].ok

\* an import has ended with a failed statement, the commit and then the close
C17_Witness ==
    \E p \in Procs :
        LET l == loc[p] IN
        /\ l.op = "import"
        /\ l.pc = "done"
        /\ CallsWhere(l, IsFailedDumpStatement) # <<>>
        /\ \E c \in CallPositions(l, IsCommit) :
              /\ l.calls[c].ok
              /\ \E k \in CallPositions(l, IsClose) : c < k

\* the number of connection attempts made by locals l
Attempts(l) == Len(CallsWhere(l, IsConnect))

\* C18: a get_db_connection call that has made k attempts and left the retry
\* loop has slept exactly k - 1 times, RETRY_DELAY seconds each time: it
\* sleeps between two attempts only, not after the last failed one.
C18_SleepsOnlyBetweenAttempts ==
    \A p \in Procs :
        LET l == loc[p] IN
        (l.op \in ConnOps /\ l.pc # "connect") =>
            /\ Len(l.sleeps) = Attempts(l) - 1
            /\ \A k \in 1..Len(l.sleeps) : l.sleeps[k] = RETRY_DELAY

\* C19: no step of a threaded_import call removes the input dump file at
\* dump_file_path, so that the file still exists after the call returns; and
\* a step of the cleanup phase, with a deletion that fails or not, leaves the
\* list of results as it is and ends in the cleanup phase or in the return.
C19_CleanupKeepsInputDump ==
    [][ /\ co.path \in DOMAIN fs => co.path \in DOMAIN fs'
        /\ co.pc = "cleanup" =>
              /\ results' = results
              /\ co'.pc \in {"cleanup", "returned"}
              /\ co'.pc = "returned" => co'.returned = results ]_vars

IsOpened(c) == c.kind = "connect" /\ c.ok

SqlSplit(text) ==
    CutAt(text, { k \in 1..Len(text) :
                    /\ text[k] = Semi
                    /\ Cardinality({ j \in 1..k : text[j] = Quote }) % 2 = 0 })

\* the statements of an SQL text, without its comments and whitespace
SqlStatements(text) ==
    LET pieces == SqlSplit(text)
        all == [k \in 1..Len(pieces) |-> Statement(pieces[k])]
    IN  SelectSeq(all, LAMBDA s : s # <<>>)

\* what a statement is: its kind, the table it names, the rows it holds
Described(s) ==
    IF IsDropTable(s) THEN [kind |-> "drop", name |-> s[2], rows |-> <<>>]
    ELSE IF IsCreateTable(s) THEN [kind |-> "create", name |-> s[2], rows |-> <<>>]
    ELSE IF IsInsert(s)
    THEN [kind |-> "insert", name |-> s[2], rows |-> InsertRows(s).rows]
    ELSE [kind |-> "other", name |-> "", rows |-> <<>>]

RECURSIVE StatementsFor(_, _)
\* the statements C15 asks for, for the tables of database db named by names
StatementsFor(db, names) ==
    IF names = <<>> THEN <<>>
    ELSE LET table == TableOf(db, Head(names)) IN
         << [kind |-> "drop", name |-> table.name, rows |-> <<>>],
            [kind |-> "create", name |-> table.name, rows |-> <<>>] >>
            \o (IF table.rows = <<>> THEN <<>>
                ELSE << [kind |-> "insert", name |-> table.name,
                         rows |-> table.rows] >>)
            \o StatementsFor(db, Tail(names))

\* C15: the file an export_dump writes holds, for each table in the order
\* SHOW TABLES listed them, a DROP TABLE IF EXISTS statement, then the create
\* statement the engine reported, then one INSERT statement with all the rows
\* of the table in order, and no INSERT statement for a table without rows:
\* the statements written so far are the first of these, and all of them once
\* the export returns success.
C15_ExportedStatements ==
    \A p \in Procs :
        LET l == loc[p] IN
        (l.op = "export" /\ l.path \in DOMAIN fs) =>
            LET asked == StatementsFor(l.activeDb, l.tables)
                stmts == SqlStatements(fs[l.path].text)
                written == [k \in 1..Len(stmts) |-> Described(stmts[k])]
            IN
            /\ Len(written) <= Len(asked)
            /\ written = SubSeq(asked, 1, Len(written))
            /\ l.ret.success => written = asked
            /\ l.ret.success =>
                  \A k \in 1..Len(l.tables) :
                      \E c \in 1..Len(stmts) :
                          stmts[c] = TableOf(l.activeDb, l.tables[k]).create

\* an export has returned success for a database of two tables, one with two
\* rows and one with none
C15_Witness ==
    \E p \in Procs :
        LET l == loc[p] IN
        /\ l.op = "export"
        /\ l.pc = "done"
        /\ l.ret.success
        /\ Len(l.tables) = 2
        /\ Len(TableOf(l.activeDb, l.tables[1]).rows) = 2
        /\ TableOf(l.activeDb, l.tables[2]).rows = <<>>

\* the positions of the trace of the benchmark that hold event ev of op
TraceAt(ev, op) ==
    { k \in 1..Len(bench.trace) : bench.trace[k].ev = ev /\ bench.trace[k].op = op }

\* the calls of the benchmark are made one after the other: every call is
\* followed by its end before the next call is made
Sequential ==
    \A k \in 1..Len(bench.trace) :
        LET e == bench.trace[k] IN
        IF k % 2 = 1 THEN e.ev = "call"
        ELSE /\ e.ev # "call"
             /\ e.op = bench.trace[k - 1].op
             /\ e.i = bench.trace[k - 1].i

\* C14: benchmark_import_export(n) makes its calls one after the other and,
\* once it has ended, has returned n records with the iteration indices
\* 1..n in order; the record of an iteration whose import failed has success
\* = False and the error of the import, and export_dump is not called in it;
\* export_dump is called for iteration i only after import_dump returned
\* success = True for iteration i.
C14_BenchmarkRecords ==
    bench.pc # "none" =>
        /\ Sequential
        /\ bench.pc # "raised"
        /\ \A k \in 1..Len(bench.results) : bench.results[k].iteration = k
        /\ bench.pc = "returned" => Len(bench.results) = bench.iterations
        /\ \A e \in TraceAt("call", "export") :
              \E r \in TraceAt("returned", "import") :
                  /\ r < e
                  /\ bench.trace[r].i = bench.trace[e].i
                  /\ bench.trace[r].success
        /\ \A r \in TraceAt("returned", "import") :
              LET i == bench.trace[r].i IN
              ~bench.trace[r].success =>
                  /\ \A e \in TraceAt("call", "export") : bench.trace[e].i # i
                  /\ i <= Len(bench.results) =>
                        /\ ~bench.results[i].success
                        /\ bench.results[i].error = bench.trace[r].message

\* the rows of the tables of a database, by the name of the table
Contents(tables) ==
    [name \in { tables[k].name : k \in 1..Len(tables) } |->
        (CHOOSE table \in { tables[k] : k \in 1..Len(tables) } :
            table.name = name).rows]

\* the round trip has ended: the import of the exported file has returned
RoundTripDone ==
    /\ bench.pc = "reimport"
    /\ loc[Main].pc = "done"
    /\ loc[Main].ret.success

\* C12: for every table set and every row value (NULL, numbers, strings with
\* a quote or a ';'), once the dump of the tables is imported, the imported
\* database exported and the exported file imported into a new database, the
\* new database holds the tables of the dump with the same rows in the same
\* order, and so does the database of the first import.
C12_RoundTripIdentical ==
    RoundTripDone =>
        /\ Contents(engine[BenchmarkDb(1)].tables) = Contents(engine[DefaultDb].tables)
        /\ Contents(engine[ROUND_TRIP_DB].tables) = Contents(engine[DefaultDb].tables)

====
